---- MODULE Spec2Model ----
(***************************************************************************)
(* A model of the deploy client: the deployment tracker (DeploymentData),  *)
(* the transaction pipeline (Config.SendMsgs) and configuration loading    *)
(* (initConfig / validateConfig).                                          *)
(*                                                                         *)
(* Slices are modelled as Go represents them: a header (ptr, len, cap)     *)
(* over a backing array that lives in a heap, so that two headers over the *)
(* same array alias each other.                                            *)
(***************************************************************************)
EXTENDS Integers, Sequences, FiniteSets, TLC

\* ------------------------------------------------------------- bounds
\* Number of concurrent callers of the tracker.
NumProcs == 2
\* Order and lease identifiers are 1..MaxId.
MaxId == 2
\* With every method in play, no collection is grown beyond MaxLen elements.
MaxLen == 2
\* With the lease methods alone, the lease collection grows to MaxLeases.
MaxLeases == 4
\* With the order methods alone, the order collection grows to MaxOrders.
MaxOrders == 3
\* CreateKey is called at most MaxKeyCalls times in the same home directory.
MaxKeyCalls == 3
\* The --dseq flag is 0..MaxDSeq, 0 when it is not given.
MaxDSeq == 2
\* The chain's latest block height is 0..MaxHeight.
MaxHeight == 2
\* A single caller adds ids of 1..MaxDupId, any of them repeatedly, until a
\* collection has MaxDup elements.
MaxDupId == 3
MaxDup == 4
\* Where every call is followed to its return, no collection is grown beyond
\* MaxLive elements.
MaxLive == 1
\* RemoveLease is called at most MaxRemoves times with the same id.
MaxRemoves == 2
\* A deployment has 0..MaxGroups groups.
MaxGroups == 2
\* SendMsgs is called with 0..MaxMsgs messages.
MaxMsgs == 2
\* The account sequence the chain reports is 0..MaxSeq.
MaxSeq == 1

Procs == 1..NumProcs
Ids == 1..MaxId
\* Addresses of backing arrays: one for each header that can hold an array
\* (dd.OrderID, dd.LeaseID, the snapshot, each caller's local copy), and two
\* for the arrays a method builds before it stores its result.
ArrIds == 1..(NumProcs + 5)

VARIABLES
  heap,          \* backing arrays: ArrIds -> sequence of cells (<<>> = free)
  Groups,        \* dd.Groups: sequence of pointers to group specs
  groupStore,    \* the group specs the pointers of dd.Groups point to
  DeploymentID,  \* dd.DeploymentID
  Version,       \* dd.Version
  OrderID,       \* dd.OrderID: slice header
  LeaseID,       \* dd.LeaseID: slice header
  rw,            \* dd.RWMutex: [w: writer holding or pending, readers: set]
  pc,            \* per caller: position in the method it is running
  op,            \* per caller: the method it is running
  arg,           \* per caller: the id the method was called with
  loc,           \* per caller: the slice header the method has read
  snap,          \* the slice Leases() returned last, as its caller holds it
  ret,           \* the value ExpectedOrders/ExpectedLeases/MsgCreate returned last
  hOrders,       \* history: order ids added and not subsequently removed
  hDupOrder,     \* history: an order id was added while present
  hGone,         \* history: order ids that were removed while present
  hLeaseAdds,    \* history: ids AddLease was called with
  hLeaseRet,     \* history: ids whose AddLease has returned
  hLeaseRems,    \* history: per id, the number of RemoveLease calls
  hHeld,         \* history: the method inside the lock when Expected* last returned
  send,          \* state of one SendMsgs call
  cfg,           \* state of one initConfig run
  fs,            \* the files under the home path: directory, config file, keyfile
  wc,            \* state of one writeConfig call
  ck,            \* state of one CreateKey call
  nd             \* state of one NewDeploymentData call

ddVars == <<heap, Groups, groupStore, DeploymentID, Version, OrderID, LeaseID>>
procVars == <<rw, pc, op, arg, loc, snap, ret>>
histVars == <<hOrders, hDupOrder, hGone, hLeaseAdds, hLeaseRet, hLeaseRems, hHeld>>
trackerVars == <<ddVars, procVars, histVars>>
cliVars == <<send, cfg, fs, wc, ck, nd>>
vars == <<ddVars, procVars, histVars, cliVars>>

\* ------------------------------------------------------------- slices
\* A nil slice (var out []T) and the empty slice make([]T, 0) returns.
NilSlice == [ptr |-> 0, len |-> 0, cap |-> 0]
EmptySlice == [ptr |-> -1, len |-> 0, cap |-> 0]

\* The elements s[0:len(s)] of a slice.
View(h, s) == IF s.len = 0 THEN <<>> ELSE SubSeq(h[s.ptr], 1, s.len)

\* The program's memory: the heap and every slice header into it.
Mem == [h |-> heap, ord |-> OrderID, lea |-> LeaseID, sn |-> snap, loc |-> loc]

\* The headers of a memory, in a fixed order.
Roots(m) == <<m.ord, m.lea, m.sn>> \o m.loc

\* The arrays reachable from some header.
Live(m) == {Roots(m)[k].ptr : k \in 1..(NumProcs + 3)} \cap ArrIds

\* A fresh array: the lowest address not in use.
NewArr(live) == CHOOSE a \in ArrIds \ live : \A b \in ArrIds \ live : a <= b

\* The capacity append grows a full slice to (runtime growslice, small slices).
GrowCap(oldcap, newlen) == IF newlen > 2 * oldcap THEN newlen ELSE 2 * oldcap

\* append(s, v): in place when capacity allows, else into a fresh, larger array.
AppendSlice(h, s, v, live) ==
  IF s.len < s.cap
  THEN [h |-> [h EXCEPT ![s.ptr][s.len + 1] = v],
        s |-> [s EXCEPT !.len = s.len + 1]]
  ELSE LET ncap == GrowCap(s.cap, s.len + 1)
           a == NewArr(live)
           arr == View(h, s) \o <<v>> \o [i \in 1..(ncap - s.len - 1) |-> 0]
       IN [h |-> [h EXCEPT ![a] = arr],
           s |-> [ptr |-> a, len |-> s.len + 1, cap |-> ncap]]

\* Mutant: only the owner is compared, which all ids of a deployment share.
EqualsOwnerOnly(a, b) == TRUE

\* OrderID.Equals / LeaseID.Equals: equality of the values.
Equals(a, b) == a = b

\* Mutant: the loop stops comparing at the first element equal to id and
\* keeps everything after it.
RECURSIVE CopyRest(_, _, _, _, _)
CopyRest(h, src, i, out, live) ==
  IF i > src.len THEN [h |-> h, s |-> out]
  ELSE LET r == AppendSlice(h, out, h[src.ptr][i], (live \cup {out.ptr}) \cap ArrIds)
       IN CopyRest(r.h, src, i + 1, r.s, live)

RECURSIVE RemoveFirstOnly(_, _, _, _, _, _)
RemoveFirstOnly(h, src, i, out, id, live) ==
  IF i > src.len THEN [h |-> h, s |-> out]
  ELSE LET o == h[src.ptr][i]
       IN IF o # id
          THEN LET r == AppendSlice(h, out, o, (live \cup {out.ptr}) \cap ArrIds)
               IN RemoveFirstOnly(r.h, src, i + 1, r.s, id, live)
          ELSE CopyRest(h, src, i + 1, out, live)

\* The loop of RemoveOrder / RemoveLease from element i on: every element not
\* equal to id is appended to out.
RECURSIVE RemoveLoop(_, _, _, _, _, _)
RemoveLoop(h, src, i, out, id, live) ==
  IF i > src.len THEN [h |-> h, s |-> out]
  ELSE LET o == h[src.ptr][i]
       IN IF ~Equals(id, o)
          THEN LET r == AppendSlice(h, out, o, (live \cup {out.ptr}) \cap ArrIds)
               IN RemoveLoop(r.h, src, i + 1, r.s, id, live)
          ELSE RemoveLoop(h, src, i + 1, out, id, live)

\* Memory after a step: arrays no header points to are reclaimed, and each
\* array in use is named by the first header that points to it (addresses
\* are not observable in the program).
Slot(m, x) ==
  IF x \in ArrIds
  THEN CHOOSE k \in 1..(NumProcs + 3) :
         /\ Roots(m)[k].ptr = x
         /\ \A j \in 1..(k - 1) : Roots(m)[j].ptr # x
  ELSE x

Normalize(m) ==
  LET mv(s) == [s EXCEPT !.ptr = Slot(m, s.ptr)]
  IN [h |-> [a \in ArrIds |->
               IF \E x \in Live(m) : Slot(m, x) = a
               THEN m.h[CHOOSE x \in Live(m) : Slot(m, x) = a]
               ELSE <<>>],
      ord |-> mv(m.ord),
      lea |-> mv(m.lea),
      sn |-> mv(m.sn),
      loc |-> [p \in Procs |-> mv(m.loc[p])]]

\* ------------------------------------------------------------- tracker
NoID == [Owner |-> "", DSeq |-> 0]
NoMsg == [ID |-> NoID, Groups |-> <<>>, Version |-> ""]
NoRet == [op |-> "none", b |-> FALSE, msg |-> NoMsg]

\* The group specs the specification file describes, in its order.
GroupSpecs == <<"web", "db", "cache", "worker">>

\* The tracker NewDeploymentData returns: groups, id and version from the
\* specification file and the flags, both collections made empty.
InitTracker ==
  /\ \E n \in 0..MaxGroups :
       /\ Groups = [i \in 1..n |-> i]
       /\ groupStore = [i \in 1..n |-> GroupSpecs[i]]
  /\ DeploymentID = [Owner |-> "akash1owner", DSeq |-> 7]
  /\ Version = "sha256:manifest"
  /\ OrderID = EmptySlice
  /\ LeaseID = EmptySlice
  /\ heap = [a \in ArrIds |-> <<>>]
  /\ rw = [w |-> 0, readers |-> {}]
  /\ pc = [p \in Procs |-> "idle"]
  /\ op = [p \in Procs |-> "none"]
  /\ arg = [p \in Procs |-> 0]
  /\ loc = [p \in Procs |-> NilSlice]
  /\ snap = NilSlice
  /\ ret = NoRet

\* Callers that have called method m and not yet returned from it.
InFlight(m) == {q \in Procs : op[q] = m}

\* Mutant: the lock taken is that of a copy of the tracker, so it excludes
\* nobody.
LockOnCopy(p) ==
  /\ pc[p] = "lock"
  /\ pc' = [pc EXCEPT ![p] = "rwait"]
  /\ UNCHANGED <<ddVars, rw, op, arg, loc, snap, ret>>

\* dd.Lock(), first half: the writers' mutex is taken, which announces the
\* writer to arriving readers.
Lock(p) ==
  /\ pc[p] = "lock"
  /\ rw.w = 0
  /\ rw' = [rw EXCEPT !.w = p]
  /\ pc' = [pc EXCEPT ![p] = "rwait"]
  /\ UNCHANGED <<ddVars, op, arg, loc, snap, ret>>

\* dd.Lock(), second half: the writer waits for the active readers to leave.
LockWait(p) ==
  /\ pc[p] = "rwait"
  /\ rw.readers = {}
  /\ pc' = [pc EXCEPT ![p] = "cs"]
  /\ UNCHANGED <<ddVars, rw, op, arg, loc, snap, ret>>

\* dd.RLock(): blocked while a writer holds the lock or waits for it.
RLock(p) ==
  /\ pc[p] = "rlock"
  /\ rw.w = 0
  /\ rw' = [rw EXCEPT !.readers = @ \cup {p}]
  /\ pc' = [pc EXCEPT ![p] = "rcs"]
  /\ UNCHANGED <<ddVars, op, arg, loc, snap, ret>>

\* defer dd.Unlock(): the lock is released as the method returns.
Unlock(p) ==
  /\ rw' = [rw EXCEPT !.w = 0]
  /\ pc' = [pc EXCEPT ![p] = "idle"]
  /\ op' = [op EXCEPT ![p] = "none"]
  /\ arg' = [arg EXCEPT ![p] = 0]

\* Mutant: Leases() returns without releasing the read lock.
RUnlockMissing(p) ==
  /\ rw' = rw
  /\ pc' = [pc EXCEPT ![p] = "idle"]
  /\ op' = [op EXCEPT ![p] = "none"]

\* defer dd.RUnlock(): the read lock is released as Leases() returns.
RUnlock(p) ==
  /\ rw' = [rw EXCEPT !.readers = @ \ {p}]
  /\ pc' = [pc EXCEPT ![p] = "idle"]
  /\ op' = [op EXCEPT ![p] = "none"]

\* A caller enters a method that takes the exclusive lock.
CallWriter(p, m, id) ==
  /\ pc[p] = "idle"
  /\ pc' = [pc EXCEPT ![p] = "lock"]
  /\ op' = [op EXCEPT ![p] = m]
  /\ arg' = [arg EXCEPT ![p] = id]
  /\ UNCHANGED <<ddVars, rw, loc, snap, ret>>

CallAddOrder(p, id, max) ==
  /\ OrderID.len + Cardinality(InFlight("AddOrder")) < max
  /\ CallWriter(p, "AddOrder", id)

CallRemoveOrder(p, id) == CallWriter(p, "RemoveOrder", id)

CallAddLease(p, id, max) ==
  /\ LeaseID.len + Cardinality(InFlight("AddLease")) < max
  /\ CallWriter(p, "AddLease", id)

CallRemoveLease(p, id) == CallWriter(p, "RemoveLease", id)

CallLeases(p) ==
  /\ pc[p] = "idle"
  /\ pc' = [pc EXCEPT ![p] = "rlock"]
  /\ op' = [op EXCEPT ![p] = "Leases"]
  /\ UNCHANGED <<ddVars, rw, arg, loc, snap, ret>>

\* The method reads the collection it works on: the operand of append, or
\* of range.
Load(p) ==
  /\ pc[p] = "cs"
  /\ loc' = [loc EXCEPT ![p] = IF op[p] \in {"AddOrder", "RemoveOrder"}
                                THEN OrderID ELSE LeaseID]
  /\ pc' = [pc EXCEPT ![p] = "store"]
  /\ UNCHANGED <<ddVars, rw, op, arg, snap, ret>>

\* dd.OrderID = append(dd.OrderID, order)
AddOrderBody(m, p, order) ==
  LET r == AppendSlice(m.h, m.loc[p], order, Live(m))
  IN Normalize([m EXCEPT !.h = r.h, !.ord = r.s, !.loc[p] = NilSlice])

\* Mutant: the filtered copy is stored in the lease collection.
RemoveOrderIntoLeases(m, p, order) ==
  LET r == RemoveLoop(m.h, m.loc[p], 1, NilSlice, order, Live(m))
  IN Normalize([m EXCEPT !.h = r.h, !.lea = r.s, !.loc[p] = NilSlice])

\* var out; for _, o := range dd.OrderID {...}; dd.OrderID = out
RemoveOrderBody(m, p, order) ==
  LET r == RemoveLoop(m.h, m.loc[p], 1, NilSlice, order, Live(m))
  IN Normalize([m EXCEPT !.h = r.h, !.ord = r.s, !.loc[p] = NilSlice])

\* Mutant: the lease is appended to the order collection's field.
AddLeaseIntoOrders(m, p, lease) ==
  LET r == AppendSlice(m.h, m.loc[p], lease, Live(m))
  IN Normalize([m EXCEPT !.h = r.h, !.ord = r.s, !.loc[p] = NilSlice])

\* dd.LeaseID = append(dd.LeaseID, lease)
AddLeaseBody(m, p, lease) ==
  LET r == AppendSlice(m.h, m.loc[p], lease, Live(m))
  IN Normalize([m EXCEPT !.h = r.h, !.lea = r.s, !.loc[p] = NilSlice])

\* Mutant: the copy is built in the array it is read from (out := s[:0]).
RemoveLeaseInPlace(m, p, lease) ==
  LET r == RemoveLoop(m.h, m.loc[p], 1, [m.loc[p] EXCEPT !.len = 0], lease, Live(m))
  IN Normalize([m EXCEPT !.h = r.h, !.lea = r.s, !.loc[p] = NilSlice])

\* var out; for _, o := range dd.LeaseID {...}; dd.LeaseID = out
RemoveLeaseBody(m, p, lease) ==
  LET r == RemoveLoop(m.h, m.loc[p], 1, NilSlice, lease, Live(m))
  IN Normalize([m EXCEPT !.h = r.h, !.lea = r.s, !.loc[p] = NilSlice])

\* out := dd.LeaseID; return out -- the header is copied, the array is not.
LeasesBody(m) == Normalize([m EXCEPT !.sn = m.lea])

\* The program's memory after a method body has run.
Store(m) ==
  /\ heap' = m.h
  /\ OrderID' = m.ord
  /\ LeaseID' = m.lea
  /\ snap' = m.sn
  /\ loc' = m.loc
  /\ UNCHANGED <<Groups, groupStore, DeploymentID, Version, ret>>

AddOrder(p) ==
  /\ pc[p] = "store" /\ op[p] = "AddOrder"
  /\ Store(AddOrderBody(Mem, p, arg[p]))
  /\ Unlock(p)

RemoveOrder(p) ==
  /\ pc[p] = "store" /\ op[p] = "RemoveOrder"
  /\ Store(RemoveOrderBody(Mem, p, arg[p]))
  /\ Unlock(p)

AddLease(p) ==
  /\ pc[p] = "store" /\ op[p] = "AddLease"
  /\ Store(AddLeaseBody(Mem, p, arg[p]))
  /\ Unlock(p)

RemoveLease(p) ==
  /\ pc[p] = "store" /\ op[p] = "RemoveLease"
  /\ Store(RemoveLeaseBody(Mem, p, arg[p]))
  /\ Unlock(p)

Leases(p) ==
  /\ pc[p] = "rcs" /\ op[p] = "Leases"
  /\ Store(LeasesBody(Mem))
  /\ RUnlock(p)
  /\ UNCHANGED arg

\* The caller of Leases() writes element i of the slice it was returned:
\* s[i] = v.
CallerWrite(p, i, v) ==
  /\ pc[p] = "idle"
  /\ i \in 1..snap.len
  /\ Store(Normalize([Mem EXCEPT !.h[snap.ptr][i] = v]))
  /\ UNCHANGED <<rw, pc, op, arg>>

\* The caller of Leases() appends to the slice it was returned:
\* s = append(s, v).
CallerAppend(p, v, max) ==
  /\ pc[p] = "idle"
  /\ snap.len < max
  /\ LET r == AppendSlice(heap, snap, v, Live(Mem))
     IN Store(Normalize([Mem EXCEPT !.h = r.h, !.sn = r.s]))
  /\ UNCHANGED <<rw, pc, op, arg>>

\* Mutant: the groups are compared with the leases, as in ExpectedLeases.
ExpectedOrdersOnLeases(groups, ord, lea) == Len(groups) = lea.len

\* return len(dd.Groups) == len(dd.OrderID)
ExpectedOrdersBody(groups, ord, lea) == Len(groups) = ord.len

\* return len(dd.Groups) == len(dd.LeaseID)
ExpectedLeasesBody(groups, ord, lea) == Len(groups) = lea.len

\* for _, group := range dd.Groups { msg.Groups = append(msg.Groups, *group) }
RECURSIVE MsgGroups(_, _, _)
MsgGroups(groups, store, i) ==
  IF i > Len(groups) THEN <<>>
  ELSE <<store[groups[i]]>> \o MsgGroups(groups, store, i + 1)

\* Mutant: every group is put in front of the ones copied before it.
RECURSIVE MsgGroupsReversed(_, _, _)
MsgGroupsReversed(groups, store, i) ==
  IF i > Len(groups) THEN <<>>
  ELSE MsgGroupsReversed(groups, store, i + 1) \o <<store[groups[i]]>>

MsgCreateReversed(id, groups, store, version) ==
  [ID |-> id, Groups |-> MsgGroupsReversed(groups, store, 1), Version |-> version]

MsgCreateBody(id, groups, store, version) ==
  [ID |-> id, Groups |-> MsgGroups(groups, store, 1), Version |-> version]

\* Mutant: the predicate reads under the shared lock, as Leases() does.
ExpectedOrdersLocked(p) ==
  /\ pc[p] = "idle"
  /\ rw.w = 0
  /\ ret' = [op |-> "ExpectedOrders",
             b |-> ExpectedOrdersBody(Groups, OrderID, LeaseID), msg |-> NoMsg]
  /\ UNCHANGED <<ddVars, rw, pc, op, arg, loc, snap>>

\* The methods that take no lock run to their return in one step.
ExpectedOrders(p) ==
  /\ pc[p] = "idle"
  /\ ret' = [op |-> "ExpectedOrders",
             b |-> ExpectedOrdersBody(Groups, OrderID, LeaseID), msg |-> NoMsg]
  /\ UNCHANGED <<ddVars, rw, pc, op, arg, loc, snap>>

ExpectedLeases(p) ==
  /\ pc[p] = "idle"
  /\ ret' = [op |-> "ExpectedLeases",
             b |-> ExpectedLeasesBody(Groups, OrderID, LeaseID), msg |-> NoMsg]
  /\ UNCHANGED <<ddVars, rw, pc, op, arg, loc, snap>>

MsgCreate(p) ==
  /\ pc[p] = "idle"
  /\ ret' = [op |-> "MsgCreate", b |-> FALSE,
             msg |-> MsgCreateBody(DeploymentID, Groups, groupStore, Version)]
  /\ UNCHANGED <<ddVars, rw, pc, op, arg, loc, snap>>

\* ------------------------------------------------------------- SendMsgs
NoErr == [step |-> "", at |-> 0]
NoAcc == [number |-> 0, sequence |-> 0]
NoTx == [msgs |-> <<>>, sequence |-> 0, gas |-> 0, signed |-> FALSE]

\* The gas limit the builder starts with, before the estimate replaces it.
DefaultGas == 200000

\* The batches SendMsgs is called with: each message passes ValidateBasic or not.
Batches == UNION {[1..n -> BOOLEAN] : n \in 0..MaxMsgs}

InitSend ==
  send = [pc |-> "idle", datagrams |-> <<>>, i |-> 0, log |-> <<>>,
          acc |-> NoAcc, tx |-> NoTx, out |-> <<>>, res |-> "", err |-> NoErr]

\* A command calls c.SendMsgs(datagrams).
CallSendMsgs ==
  /\ send.pc = "idle"
  /\ \E d \in Batches :
       send' = [send EXCEPT !.pc = "validate", !.datagrams = d, !.i = 1]
  /\ UNCHANGED <<trackerVars, cfg, fs, wc, ck, nd>>

\* Mutant: only the first message of the batch is validated.
ValidateFirstOnly(s) ==
  IF s.i > Len(s.datagrams) \/ s.i > 1
  THEN [s EXCEPT !.pc = "GetAccount"]
  ELSE IF s.datagrams[s.i]
       THEN [s EXCEPT !.i = s.i + 1,
                      !.log = Append(s.log, "ValidateBasic")]
       ELSE [s EXCEPT !.pc = "returned",
                      !.log = Append(s.log, "ValidateBasic"),
                      !.err = [step |-> "ValidateBasic", at |-> s.i]]

\* for _, msg := range datagrams { if err := msg.ValidateBasic(); ... }
ValidateStep(s) ==
  IF s.i > Len(s.datagrams)
  THEN [s EXCEPT !.pc = "GetAccount"]
  ELSE IF s.datagrams[s.i]
       THEN [s EXCEPT !.i = s.i + 1,
                      !.log = Append(s.log, "ValidateBasic")]
       ELSE [s EXCEPT !.pc = "returned",
                      !.log = Append(s.log, "ValidateBasic"),
                      !.err = [step |-> "ValidateBasic", at |-> s.i]]

ValidateBasic ==
  /\ send.pc = "validate"
  /\ send' = ValidateStep(send)
  /\ UNCHANGED <<trackerVars, cfg, fs, wc, ck, nd>>

\* BuildAndSignTx: auth.NewAccountRetriever(ctx).GetAccount(...)
GetAccountStep(s, ok, seq) ==
  IF ok
  THEN [s EXCEPT !.pc = "EnrichWithGas",
                 !.log = Append(s.log, "GetAccount"),
                 !.acc = [number |-> 1, sequence |-> seq],
                 !.tx = [msgs |-> s.datagrams, sequence |-> seq,
                         gas |-> DefaultGas, signed |-> FALSE]]
  ELSE [s EXCEPT !.pc = "returned",
                 !.log = Append(s.log, "GetAccount"),
                 !.err = [step |-> "GetAccount", at |-> 0]]

GetAccount ==
  /\ send.pc = "GetAccount"
  /\ \E ok \in BOOLEAN, seq \in 0..MaxSeq : send' = GetAccountStep(send, ok, seq)
  /\ UNCHANGED <<trackerVars, cfg, fs, wc, ck, nd>>

\* BuildAndSignTx: authclient.EnrichWithGas(txBldr, ctx, msgs)
EnrichWithGasStep(s, ok, gas) ==
  IF ok
  THEN [s EXCEPT !.pc = "BuildAndSign",
                 !.log = Append(s.log, "EnrichWithGas"),
                 !.tx = [@ EXCEPT !.gas = gas]]
  ELSE [s EXCEPT !.pc = "returned",
                 !.log = Append(s.log, "EnrichWithGas"),
                 !.err = [step |-> "EnrichWithGas", at |-> 0]]

EnrichWithGas ==
  /\ send.pc = "EnrichWithGas"
  /\ \E ok \in BOOLEAN, gas \in {50000, 300000} :
       send' = EnrichWithGasStep(send, ok, gas)
  /\ UNCHANGED <<trackerVars, cfg, fs, wc, ck, nd>>

\* BuildAndSignTx: txBldr.BuildAndSign(defaultKey, c.Keypass, msgs)
BuildAndSignStep(s, ok) ==
  IF ok
  THEN [s EXCEPT !.pc = "BroadcastTxCommit",
                 !.log = Append(s.log, "BuildAndSign"),
                 !.tx = [@ EXCEPT !.signed = TRUE],
                 !.out = <<[s.tx EXCEPT !.signed = TRUE]>>]
  ELSE [s EXCEPT !.pc = "returned",
                 !.log = Append(s.log, "BuildAndSign"),
                 !.err = [step |-> "BuildAndSign", at |-> 0]]

BuildAndSign ==
  /\ send.pc = "BuildAndSign"
  /\ \E ok \in BOOLEAN : send' = BuildAndSignStep(send, ok)
  /\ UNCHANGED <<trackerVars, cfg, fs, wc, ck, nd>>

\* Mutant: a broadcast that fails is tried again.
BroadcastRetry(s, outcome) ==
  IF outcome = "error"
  THEN [s EXCEPT !.log = Append(s.log, "BroadcastTxCommit")]
  ELSE [s EXCEPT !.pc = "returned",
                 !.log = Append(s.log, "BroadcastTxCommit"),
                 !.res = outcome]

\* return c.BroadcastTxCommit(out): the chain commits the transaction,
\* rejects it, or the broadcast fails; SendMsgs returns in every case.
BroadcastStep(s, outcome) ==
  [s EXCEPT !.pc = "returned",
            !.log = Append(s.log, "BroadcastTxCommit"),
            !.res = IF outcome = "error" THEN "" ELSE outcome,
            !.err = IF outcome = "error"
                    THEN [step |-> "BroadcastTxCommit", at |-> 0]
                    ELSE NoErr]

BroadcastTxCommit ==
  /\ send.pc = "BroadcastTxCommit"
  /\ \E outcome \in {"committed", "rejected", "error"} :
       send' = BroadcastStep(send, outcome)
  /\ UNCHANGED <<trackerVars, cfg, fs, wc, ck, nd>>

NextSend ==
  \/ CallSendMsgs
  \/ ValidateBasic
  \/ GetAccount
  \/ EnrichWithGas
  \/ BuildAndSign
  \/ BroadcastTxCommit


\* ------------------------------------------------------------- initConfig
\* The outcome of every call initConfig makes into the file system and the
\* libraries: os.Stat gives "ok", "notexist" or another "error".
StatResults == {"ok", "notexist", "error"}
Envs ==
  [homeFlag : BOOLEAN, statCfg : StatResults, viperRead : BOOLEAN,
   readFile : BOOLEAN, unmarshal : BOOLEAN, rpcNew : BOOLEAN,
   statKey : StatResults, openKey : BOOLEAN, readKey : BOOLEAN,
   importKey : BOOLEAN]

\* config = &Config{}: nothing loaded, no codec, no keybase, no address.
NewConfig == [loaded |-> FALSE, Amino |-> FALSE, keybase |-> "nil", address |-> "nil"]

NoEnv ==
  [homeFlag |-> FALSE, statCfg |-> "error", viperRead |-> FALSE,
   readFile |-> FALSE, unmarshal |-> FALSE, rpcNew |-> FALSE,
   statKey |-> "error", openKey |-> FALSE, readKey |-> FALSE,
   importKey |-> FALSE]

InitCfg ==
  cfg = [pc |-> "idle", env |-> NoEnv, config |-> NewConfig, printed |-> <<>>,
         verr |-> "none", returned |-> "none", exit |-> 0]

\* A command runs initConfig in some environment.
CallInitConfig ==
  /\ cfg.pc = "idle"
  /\ \E e \in Envs : cfg' = [cfg EXCEPT !.pc = "start", !.env = e]
  /\ UNCHANGED <<trackerVars, send, fs, wc, ck, nd>>

\* Mutant: a config file that does not exist ends the process.
InitConfigStatStrict(c) ==
  IF ~c.env.homeFlag
  THEN [c EXCEPT !.pc = "done", !.returned = "err"]
  ELSE IF c.env.statCfg = "ok"
       THEN [c EXCEPT !.pc = "read"]
       ELSE IF c.env.statCfg = "notexist"
            THEN [c EXCEPT !.pc = "done", !.exit = 1,
                           !.printed = Append(c.printed, "config file doesn't exist")]
            ELSE [c EXCEPT !.pc = "done", !.returned = "nil"]

\* home, err := cmd.PersistentFlags().GetString(flags.FlagHome); os.Stat(cfgPath)
InitConfigStatStep(c) ==
  IF ~c.env.homeFlag
  THEN [c EXCEPT !.pc = "done", !.returned = "err"]
  ELSE IF c.env.statCfg = "ok"
       THEN [c EXCEPT !.pc = "read"]
       ELSE IF c.env.statCfg = "notexist"
            THEN [c EXCEPT !.pc = "done", !.returned = "nil",
                           !.printed = Append(c.printed, "config file doesn't exist")]
            ELSE [c EXCEPT !.pc = "done", !.returned = "nil"]

InitConfigStat ==
  /\ cfg.pc = "start"
  /\ cfg' = InitConfigStatStep(cfg)
  /\ UNCHANGED <<trackerVars, send, fs, wc, ck, nd>>

\* viper.ReadInConfig, ioutil.ReadFile, yaml.Unmarshal
InitConfigReadStep(c) ==
  IF ~c.env.viperRead
  THEN [c EXCEPT !.pc = "done", !.returned = "nil"]
  ELSE IF ~c.env.readFile
       THEN [c EXCEPT !.pc = "done", !.exit = 1,
                      !.printed = Append(c.printed, "Error reading file")]
       ELSE IF ~c.env.unmarshal
            THEN [c EXCEPT !.pc = "done", !.exit = 1,
                           !.printed = Append(c.printed, "Error unmarshalling config")]
            ELSE [c EXCEPT !.pc = "validate", !.config.loaded = TRUE]

InitConfigRead ==
  /\ cfg.pc = "read"
  /\ cfg' = InitConfigReadStep(cfg)
  /\ UNCHANGED <<trackerVars, send, fs, wc, ck, nd>>

\* Mutant: a keyfile that does not exist makes validateConfig fail.
ValidateConfigStrict(c) ==
  LET c1 == [c EXCEPT !.config.Amino = TRUE]
  IN IF ~c.env.rpcNew \/ c.env.statKey = "notexist"
     THEN [c1 EXCEPT !.pc = "validated", !.verr = "err"]
     ELSE [c1 EXCEPT !.pc = "keybase"]

\* validateConfig up to the keyfile check: the codec, the RPC client, the
\* os.Stat of the keyfile.
ValidateConfigStep(c) ==
  LET c1 == [c EXCEPT !.config.Amino = TRUE]
  IN IF ~c.env.rpcNew
     THEN [c1 EXCEPT !.pc = "validated", !.verr = "err"]
     ELSE IF c.env.statKey = "notexist"
          THEN [c1 EXCEPT !.pc = "validated", !.verr = "nil",
                          !.printed = Append(c.printed,
                             "Private key specified in the config file doesn't exist")]
          ELSE [c1 EXCEPT !.pc = "keybase"]

ValidateConfig ==
  /\ cfg.pc = "validate"
  /\ cfg' = ValidateConfigStep(cfg)
  /\ UNCHANGED <<trackerVars, send, fs, wc, ck, nd>>

\* c.CreateKeybase(): the keyfile is opened, read and imported; the keybase
\* is set on the config also when the import fails.
CreateKeybaseStep(c) ==
  IF ~c.env.openKey \/ ~c.env.readKey
  THEN [c EXCEPT !.pc = "validated", !.verr = "err"]
  ELSE IF ~c.env.importKey
       THEN [c EXCEPT !.pc = "validated", !.verr = "err", !.config.keybase = "empty"]
       ELSE [c EXCEPT !.pc = "address", !.config.keybase = "default"]

CreateKeybase ==
  /\ cfg.pc = "keybase"
  /\ cfg' = CreateKeybaseStep(cfg)
  /\ UNCHANGED <<trackerVars, send, fs, wc, ck, nd>>

\* c.GetAccAddress(): the stored address if there is one, else the address
\* of the default key of the keybase; the config is not written.
GetAccAddress(config) ==
  IF config.address # "nil" THEN config.address
  ELSE IF config.keybase = "default" THEN "akash1default"
       ELSE "nil"

\* validateConfig's last statement: c.GetAccAddress(), its result dropped.
SetAddressStep(c) == [c EXCEPT !.pc = "validated", !.verr = "nil"]

SetAddress ==
  /\ cfg.pc = "address"
  /\ cfg' = SetAddressStep(cfg)
  /\ UNCHANGED <<trackerVars, send, fs, wc, ck, nd>>

\* initConfig after validateConfig returned: an error ends the process.
InitConfigFinishStep(c) ==
  IF c.verr = "err"
  THEN [c EXCEPT !.pc = "done", !.exit = 1,
                 !.printed = Append(c.printed, "Error parsing chain config")]
  ELSE [c EXCEPT !.pc = "done", !.returned = "nil"]

InitConfigFinish ==
  /\ cfg.pc = "validated"
  /\ cfg' = InitConfigFinishStep(cfg)
  /\ UNCHANGED <<trackerVars, send, fs, wc, ck, nd>>

NextConfig ==
  \/ CallInitConfig
  \/ InitConfigStat
  \/ InitConfigRead
  \/ ValidateConfig
  \/ CreateKeybase
  \/ SetAddress
  \/ InitConfigFinish

\* ------------------------------------------------------------- files
\* A file of the home directory: whether it exists, and its contents as the
\* sequence of chunks written to it.
NoFile == [exists |-> FALSE, data |-> <<>>]

\* os.OpenFile(name, O_WRONLY|O_CREATE|O_TRUNC, perm), as ioutil.WriteFile
\* opens its file: the file is created if missing and emptied if not.
OpenTrunc(f) == [exists |-> TRUE, data |-> <<>>]

\* One write(2) of f.Write(data): the next chunk of data reaches the file.
WriteChunk(f, data) == [f EXCEPT !.data = Append(@, data[Len(@) + 1])]

\* The Config values written and read: the four fields of the config file,
\* and the codec, which validateConfig sets.
ConfigValues ==
  [ChainID : {"testnet", "edgenet"}, RPCAddr : {"http://localhost:26657"},
   Keyfile : {"key.priv"}, Keypass : {"12345678"}, Amino : BOOLEAN]

\* The configuration in force before writeConfig is called.
OldConfig ==
  [ChainID |-> "oldnet", RPCAddr |-> "http://localhost:26657",
   Keyfile |-> "key.priv", Keypass |-> "12345678", Amino |-> TRUE]

\* yaml.Marshal(cfg): one line per exported field, in the order of the
\* struct, under its yaml tag, or its lower-cased name where it has none;
\* the unexported fields are left out.
Marshal(c) ==
  <<<<"chain-id", c.ChainID>>, <<"rpc-addr", c.RPCAddr>>,
    <<"keyfile", c.Keyfile>>, <<"keypass", c.Keypass>>,
    <<"amino", IF c.Amino THEN "{}" ELSE "null">>>>

NoWrite ==
  [pc |-> "idle", cfg |-> OldConfig, out |-> <<>>, err |-> "none",
   config |-> OldConfig, old |-> NoFile]

NoKey ==
  [pc |-> "idle", calls |-> 0, stat |-> "none", made |-> <<>>, armor |-> <<>>,
   printed |-> <<>>, err |-> "none", old |-> NoFile]

\* The result NewDeploymentData returns beside an error: no tracker.
NilTracker ==
  [nil |-> TRUE, Groups |-> <<>>, DeploymentID |-> NoID, OrderID |-> NilSlice,
   LeaseID |-> NilSlice, Version |-> ""]

NoNew ==
  [pc |-> "idle", depAddr |-> "", flagDSeq |-> 0, log |-> <<>>, groups |-> <<>>,
   ver |-> "", height |-> 0, id |-> NoID, dd |-> NilTracker, err |-> "none"]

\* No home directory yet, and none of the file commands running.
InitFiles ==
  /\ fs = [dir |-> FALSE, cfgFile |-> NoFile, keyFile |-> NoFile]
  /\ wc = NoWrite
  /\ ck = NoKey
  /\ nd = NoNew

\* The home directories writeConfig is called in: missing, or there with or
\* without a config file written before.
InitWriteFiles ==
  /\ fs \in {[dir |-> FALSE, cfgFile |-> NoFile, keyFile |-> NoFile],
             [dir |-> TRUE, cfgFile |-> NoFile, keyFile |-> NoFile],
             [dir |-> TRUE, keyFile |-> NoFile,
              cfgFile |-> [exists |-> TRUE, data |-> Marshal(OldConfig)]]}
  /\ wc = NoWrite
  /\ ck = NoKey
  /\ nd = NoNew

\* A command calls writeConfig(cmd, cfg).
CallWriteConfig ==
  /\ wc.pc = "idle"
  /\ \E c \in ConfigValues :
       wc' = [wc EXCEPT !.pc = "mkdir", !.cfg = c, !.old = fs.cfgFile]
  /\ UNCHANGED <<trackerVars, send, cfg, fs, ck, nd>>

\* Mutant: the directory is taken to exist.
MkdirAllSkipped(w, f, ok) ==
  [w |-> [w EXCEPT !.pc = "marshal"], f |-> f]

\* os.MkdirAll(filepath.Dir(cfgPath), os.ModePerm): nothing to do when the
\* directory exists; else it is created, or the error returned.
MkdirAllStep(w, f, ok) ==
  IF f.dir \/ ok
  THEN [w |-> [w EXCEPT !.pc = "marshal"], f |-> [f EXCEPT !.dir = TRUE]]
  ELSE [w |-> [w EXCEPT !.pc = "returned", !.err = "err"], f |-> f]

MkdirAll ==
  /\ wc.pc = "mkdir"
  /\ \E ok \in BOOLEAN :
       LET r == MkdirAllStep(wc, fs, ok)
       IN wc' = r.w /\ fs' = r.f
  /\ UNCHANGED <<trackerVars, send, cfg, ck, nd>>

\* out, err := yaml.Marshal(cfg)
MarshalStep(w, ok) ==
  IF ok
  THEN [w EXCEPT !.pc = "open", !.out = Marshal(w.cfg)]
  ELSE [w EXCEPT !.pc = "returned", !.err = "err"]

MarshalConfig ==
  /\ wc.pc = "marshal"
  /\ \E ok \in BOOLEAN : wc' = MarshalStep(wc, ok)
  /\ UNCHANGED <<trackerVars, send, cfg, fs, ck, nd>>

\* ioutil.WriteFile(cfgPath, out, 0644), the open: it fails in a directory
\* that does not exist, and may fail otherwise; when it succeeds the file is
\* there and empty.
OpenConfigStep(w, f, ok) ==
  IF f.dir /\ ok
  THEN [w |-> [w EXCEPT !.pc = "write"], f |-> [f EXCEPT !.cfgFile = OpenTrunc(@)]]
  ELSE [w |-> [w EXCEPT !.pc = "returned", !.err = "err"], f |-> f]

OpenConfig ==
  /\ wc.pc = "open"
  /\ \E ok \in BOOLEAN :
       LET r == OpenConfigStep(wc, fs, ok)
       IN wc' = r.w /\ fs' = r.f
  /\ UNCHANGED <<trackerVars, send, cfg, ck, nd>>

\* ioutil.WriteFile, the write: chunk after chunk until all of out is in the
\* file or a write fails.
WriteConfigStep(w, f, ok) ==
  IF Len(f.cfgFile.data) = Len(w.out)
  THEN [w |-> [w EXCEPT !.pc = "close"], f |-> f]
  ELSE IF ok
       THEN [w |-> w, f |-> [f EXCEPT !.cfgFile = WriteChunk(@, w.out)]]
       ELSE [w |-> [w EXCEPT !.pc = "close", !.err = "err"], f |-> f]

WriteConfig ==
  /\ wc.pc = "write"
  /\ \E ok \in BOOLEAN :
       LET r == WriteConfigStep(wc, fs, ok)
       IN wc' = r.w /\ fs' = r.f
  /\ UNCHANGED <<trackerVars, send, cfg, ck, nd>>

\* ioutil.WriteFile, the close, and its return: the error of the write, else
\* that of the close; writeConfig returns it when there is one.
CloseConfigStep(w, ok) ==
  IF w.err = "none" /\ ok
  THEN [w EXCEPT !.pc = "reset"]
  ELSE [w EXCEPT !.pc = "returned", !.err = "err"]

CloseConfig ==
  /\ wc.pc = "close"
  /\ \E ok \in BOOLEAN : wc' = CloseConfigStep(wc, ok)
  /\ UNCHANGED <<trackerVars, send, cfg, fs, ck, nd>>

\* config = cfg; return
ResetConfigStep(w) == [w EXCEPT !.pc = "returned", !.err = "nil", !.config = w.cfg]

ResetConfig ==
  /\ wc.pc = "reset"
  /\ wc' = ResetConfigStep(wc)
  /\ UNCHANGED <<trackerVars, send, cfg, fs, ck, nd>>

NextWrite ==
  \/ CallWriteConfig
  \/ MkdirAll
  \/ MarshalConfig
  \/ OpenConfig
  \/ WriteConfig
  \/ CloseConfig
  \/ ResetConfig

\* ------------------------------------------------------------- CreateKey
\* The keyfile a key was exported to before.
OldKeyFile == [exists |-> TRUE, data |-> <<"BEGIN", "old key", "END">>]

\* kb.ExportPrivKey: the armored private key, as the chunks written.
Armor == <<"BEGIN", "new key", "END">>

\* The home directories CreateKey is called in: missing, or there with or
\* without a keyfile.
InitKeyFiles ==
  /\ fs \in {[dir |-> FALSE, cfgFile |-> NoFile, keyFile |-> NoFile],
             [dir |-> TRUE, cfgFile |-> NoFile, keyFile |-> NoFile],
             [dir |-> TRUE, cfgFile |-> NoFile, keyFile |-> OldKeyFile]}
  /\ wc = NoWrite
  /\ ck = NoKey
  /\ nd = NoNew

\* A command calls c.CreateKey(), in a home directory as it was found or as
\* an earlier call has left it.
CallCreateKey ==
  /\ ck.pc \in {"idle", "returned"}
  /\ ck.calls < MaxKeyCalls
  /\ ck' = [NoKey EXCEPT !.pc = "stat", !.calls = ck.calls + 1,
                         !.old = fs.keyFile]
  /\ UNCHANGED <<trackerVars, send, cfg, fs, wc, nd>>

\* What os.Stat(kp) can answer: "ok" only for a file that is there,
\* "notexist" only for one that is not, another error in both cases.
StatOutcomes(f) == IF f.exists THEN {"ok", "error"} ELSE {"notexist", "error"}

\* Mutant: only a stat without error counts as an existing keyfile.
StatKeyOnlyOk(k, st) ==
  IF st = "ok"
  THEN [k EXCEPT !.pc = "returned", !.stat = st, !.err = "exists"]
  ELSE [k EXCEPT !.pc = "generate", !.stat = st,
                 !.printed = Append(k.printed, "Creating")]

\* if _, err := os.Stat(kp); !os.IsNotExist(err) { return fmt.Errorf(...) }
\* else { fmt.Printf("Creating %s ...", kp) }
StatKeyStep(k, st) ==
  IF st # "notexist"
  THEN [k EXCEPT !.pc = "returned", !.stat = st, !.err = "exists"]
  ELSE [k EXCEPT !.pc = "generate", !.stat = st,
                 !.printed = Append(k.printed, "Creating")]

StatKey ==
  /\ ck.pc = "stat"
  /\ \E st \in StatOutcomes(fs.keyFile) : ck' = StatKeyStep(ck, st)
  /\ UNCHANGED <<trackerVars, send, cfg, fs, wc, nd>>

\* bip39.NewEntropy, bip39.NewMnemonic, kb.CreateAccount: the first call
\* that fails returns its error (failAt = 0: none fails).
GenerateKeyStep(k, failAt) ==
  LET calls == <<"NewEntropy", "NewMnemonic", "CreateAccount">>
  IN IF failAt = 0
     THEN [k EXCEPT !.pc = "export", !.made = calls]
     ELSE [k EXCEPT !.pc = "returned", !.made = SubSeq(calls, 1, failAt),
                    !.err = calls[failAt]]

GenerateKey ==
  /\ ck.pc = "generate"
  /\ \E failAt \in 0..3 : ck' = GenerateKeyStep(ck, failAt)
  /\ UNCHANGED <<trackerVars, send, cfg, fs, wc, nd>>

\* armor, err := kb.ExportPrivKey(defaultKey, defaultPass, defaultPass)
ExportPrivKeyStep(k, ok) ==
  IF ok
  THEN [k EXCEPT !.pc = "open", !.armor = Armor]
  ELSE [k EXCEPT !.pc = "returned", !.err = "ExportPrivKey"]

ExportPrivKey ==
  /\ ck.pc = "export"
  /\ \E ok \in BOOLEAN : ck' = ExportPrivKeyStep(ck, ok)
  /\ UNCHANGED <<trackerVars, send, cfg, fs, wc, nd>>

\* ioutil.WriteFile(kp, []byte(armor), 0644), the open.
OpenKeyStep(k, f, ok) ==
  IF f.dir /\ ok
  THEN [k |-> [k EXCEPT !.pc = "write"], f |-> [f EXCEPT !.keyFile = OpenTrunc(@)]]
  ELSE [k |-> [k EXCEPT !.pc = "returned", !.err = "WriteFile"], f |-> f]

OpenKey ==
  /\ ck.pc = "open"
  /\ \E ok \in BOOLEAN :
       LET r == OpenKeyStep(ck, fs, ok)
       IN ck' = r.k /\ fs' = r.f
  /\ UNCHANGED <<trackerVars, send, cfg, wc, nd>>

\* ioutil.WriteFile, the write.
WriteKeyStep(k, f, ok) ==
  IF Len(f.keyFile.data) = Len(k.armor)
  THEN [k |-> [k EXCEPT !.pc = "close"], f |-> f]
  ELSE IF ok
       THEN [k |-> k, f |-> [f EXCEPT !.keyFile = WriteChunk(@, k.armor)]]
       ELSE [k |-> [k EXCEPT !.pc = "close", !.err = "WriteFile"], f |-> f]

WriteKey ==
  /\ ck.pc = "write"
  /\ \E ok \in BOOLEAN :
       LET r == WriteKeyStep(ck, fs, ok)
       IN ck' = r.k /\ fs' = r.f
  /\ UNCHANGED <<trackerVars, send, cfg, wc, nd>>

\* ioutil.WriteFile, the close; CreateKey returns what WriteFile returns.
CloseKeyStep(k, ok) ==
  IF k.err = "none" /\ ok
  THEN [k EXCEPT !.pc = "returned", !.err = "nil"]
  ELSE [k EXCEPT !.pc = "returned", !.err = "WriteFile"]

CloseKey ==
  /\ ck.pc = "close"
  /\ \E ok \in BOOLEAN : ck' = CloseKeyStep(ck, ok)
  /\ UNCHANGED <<trackerVars, send, cfg, fs, wc, nd>>

NextKey ==
  \/ CallCreateKey
  \/ StatKey
  \/ GenerateKey
  \/ ExportPrivKey
  \/ OpenKey
  \/ WriteKey
  \/ CloseKey

\* ------------------------------------------------------------- NewDeploymentData
\* A command calls NewDeploymentData(file, flags, depAddr).
CallNewDeploymentData ==
  /\ nd.pc = "idle"
  /\ \E a \in {"akash1owner", "akash1other"}, s \in 0..MaxDSeq :
       nd' = [nd EXCEPT !.pc = "ReadFile", !.depAddr = a, !.flagDSeq = s]
  /\ UNCHANGED <<trackerVars, send, cfg, fs, wc, ck>>

\* if err != nil { return nil, err }
FailNew(n, step) ==
  [n EXCEPT !.pc = "returned", !.log = Append(n.log, step), !.err = step]

\* A call that succeeds: the next one follows.
PassNew(n, step, next) ==
  [n EXCEPT !.pc = next, !.log = Append(n.log, step)]

\* f, err := ioutil.ReadFile(file)
ReadFileStep(n, ok) ==
  IF ok THEN PassNew(n, "ReadFile", "Read") ELSE FailNew(n, "ReadFile")

ReadFile ==
  /\ nd.pc = "ReadFile"
  /\ \E ok \in BOOLEAN : nd' = ReadFileStep(nd, ok)
  /\ UNCHANGED <<trackerVars, send, cfg, fs, wc, ck>>

\* sdlSpec, err := sdl.Read(f)
SdlReadStep(n, ok) ==
  IF ok THEN PassNew(n, "Read", "DeploymentGroups") ELSE FailNew(n, "Read")

SdlRead ==
  /\ nd.pc = "Read"
  /\ \E ok \in BOOLEAN : nd' = SdlReadStep(nd, ok)
  /\ UNCHANGED <<trackerVars, send, cfg, fs, wc, ck>>

\* groups, err := sdlSpec.DeploymentGroups()
DeploymentGroupsStep(n, ok, k) ==
  IF ok
  THEN [PassNew(n, "DeploymentGroups", "Manifest")
          EXCEPT !.groups = SubSeq(GroupSpecs, 1, k)]
  ELSE FailNew(n, "DeploymentGroups")

DeploymentGroups ==
  /\ nd.pc = "DeploymentGroups"
  /\ \E ok \in BOOLEAN, k \in 0..MaxGroups : nd' = DeploymentGroupsStep(nd, ok, k)
  /\ UNCHANGED <<trackerVars, send, cfg, fs, wc, ck>>

\* mani, err := sdlSpec.Manifest()
ManifestStep(n, ok) ==
  IF ok THEN PassNew(n, "Manifest", "ManifestVersion") ELSE FailNew(n, "Manifest")

Manifest ==
  /\ nd.pc = "Manifest"
  /\ \E ok \in BOOLEAN : nd' = ManifestStep(nd, ok)
  /\ UNCHANGED <<trackerVars, send, cfg, fs, wc, ck>>

\* ver, err := sdl.ManifestVersion(mani)
ManifestVersionStep(n, ok) ==
  IF ok
  THEN [PassNew(n, "ManifestVersion", "DeploymentIDFromFlags")
          EXCEPT !.ver = "sha256:manifest"]
  ELSE FailNew(n, "ManifestVersion")

ManifestVersion ==
  /\ nd.pc = "ManifestVersion"
  /\ \E ok \in BOOLEAN : nd' = ManifestVersionStep(nd, ok)
  /\ UNCHANGED <<trackerVars, send, cfg, fs, wc, ck>>

\* Mutant: the sequence is always taken from the chain.
IDFromFlagsAlwaysHeight(n, ok) ==
  IF ok
  THEN [PassNew(n, "DeploymentIDFromFlags", "BlockHeight")
          EXCEPT !.id = [Owner |-> n.depAddr, DSeq |-> n.flagDSeq]]
  ELSE FailNew(n, "DeploymentIDFromFlags")

\* id, err := dcli.DeploymentIDFromFlags(flags, depAddr.String());
\* if id.DSeq == 0 { ... config.BlockHeight() ... }
IDFromFlagsStep(n, ok) ==
  IF ok
  THEN [PassNew(n, "DeploymentIDFromFlags",
                IF n.flagDSeq = 0 THEN "BlockHeight" ELSE "return")
          EXCEPT !.id = [Owner |-> n.depAddr, DSeq |-> n.flagDSeq]]
  ELSE FailNew(n, "DeploymentIDFromFlags")

DeploymentIDFromFlags ==
  /\ nd.pc = "DeploymentIDFromFlags"
  /\ \E ok \in BOOLEAN : nd' = IDFromFlagsStep(nd, ok)
  /\ UNCHANGED <<trackerVars, send, cfg, fs, wc, ck>>

\* Config.BlockHeight: the latest height of the node's status, or 0 and the
\* error of the status call.
BlockHeightBody(ok, h) ==
  IF ok THEN [height |-> h, err |-> "nil"] ELSE [height |-> 0, err |-> "err"]

\* if id.DSeq, err = config.BlockHeight(); err != nil { return nil, err }
BlockHeightStep(n, ok, h) ==
  LET r == BlockHeightBody(ok, h)
  IN IF r.err = "nil"
     THEN [PassNew(n, "BlockHeight", "return")
             EXCEPT !.id.DSeq = r.height, !.height = h]
     ELSE [FailNew(n, "BlockHeight") EXCEPT !.id.DSeq = r.height]

BlockHeight ==
  /\ nd.pc = "BlockHeight"
  /\ \E ok \in BOOLEAN, h \in 0..MaxHeight : nd' = BlockHeightStep(nd, ok, h)
  /\ UNCHANGED <<trackerVars, send, cfg, fs, wc, ck>>

\* return &DeploymentData{...}, nil
ReturnTrackerStep(n) ==
  [n EXCEPT !.pc = "returned", !.err = "nil",
            !.dd = [nil |-> FALSE, Groups |-> n.groups, DeploymentID |-> n.id,
                    OrderID |-> EmptySlice, LeaseID |-> EmptySlice,
                    Version |-> n.ver]]

ReturnTracker ==
  /\ nd.pc = "return"
  /\ nd' = ReturnTrackerStep(nd)
  /\ UNCHANGED <<trackerVars, send, cfg, fs, wc, ck>>

NextNew ==
  \/ CallNewDeploymentData
  \/ ReadFile
  \/ SdlRead
  \/ DeploymentGroups
  \/ Manifest
  \/ ManifestVersion
  \/ DeploymentIDFromFlags
  \/ BlockHeight
  \/ ReturnTracker

\* ------------------------------------------------------------- specifications
InitHist ==
  /\ hOrders = {}
  /\ hDupOrder = FALSE
  /\ hGone = {}
  /\ hLeaseAdds = {}
  /\ hLeaseRet = {}
  /\ hLeaseRems = [id \in Ids |-> 0]
  /\ hHeld = ""

\* A step of the tracker's methods leaves the rest alone.
Quiet == UNCHANGED <<histVars, cliVars>>

\* Every method of the tracker, called by concurrent callers.
Next ==
  \E p \in Procs :
    \/ \E id \in Ids : CallAddOrder(p, id, MaxLen) /\ Quiet
    \/ \E id \in Ids : CallRemoveOrder(p, id) /\ Quiet
    \/ \E id \in Ids : CallAddLease(p, id, MaxLen) /\ Quiet
    \/ \E id \in Ids : CallRemoveLease(p, id) /\ Quiet
    \/ CallLeases(p) /\ Quiet
    \/ Lock(p) /\ Quiet
    \/ LockWait(p) /\ Quiet
    \/ RLock(p) /\ Quiet
    \/ Load(p) /\ Quiet
    \/ AddOrder(p) /\ Quiet
    \/ RemoveOrder(p) /\ Quiet
    \/ AddLease(p) /\ Quiet
    \/ RemoveLease(p) /\ Quiet
    \/ Leases(p) /\ Quiet
    \/ ExpectedOrders(p) /\ Quiet
    \/ ExpectedLeases(p) /\ Quiet
    \/ MsgCreate(p) /\ Quiet

\* No tracker has been constructed: the commands that only load the
\* configuration or send messages.
NoTracker ==
  /\ Groups = <<>>
  /\ groupStore = <<>>
  /\ DeploymentID = NoID
  /\ Version = ""
  /\ OrderID = NilSlice
  /\ LeaseID = NilSlice
  /\ heap = [a \in ArrIds |-> <<>>]
  /\ rw = [w |-> 0, readers |-> {}]
  /\ pc = [p \in Procs |-> "idle"]
  /\ op = [p \in Procs |-> "none"]
  /\ arg = [p \in Procs |-> 0]
  /\ loc = [p \in Procs |-> NilSlice]
  /\ snap = NilSlice
  /\ ret = NoRet

Init == InitTracker /\ InitHist /\ InitSend /\ InitCfg /\ InitFiles

InitCli == NoTracker /\ InitHist /\ InitSend /\ InitCfg /\ InitFiles

Spec == Init /\ [][Next]_vars

SpecSend == InitCli /\ [][NextSend]_vars

SpecConfig == InitCli /\ [][NextConfig]_vars

InitWrite == NoTracker /\ InitHist /\ InitSend /\ InitCfg /\ InitWriteFiles

SpecWrite == InitWrite /\ [][NextWrite]_vars

SpecNew == InitCli /\ [][NextNew]_vars

InitKey == NoTracker /\ InitHist /\ InitSend /\ InitCfg /\ InitKeyFiles

SpecKey == InitKey /\ [][NextKey]_vars

\* ------------------------------------------------------------- history
\* What a sequence of calls should leave in the order collection, recorded
\* as the calls take effect.
HistAddOrder(p) ==
  /\ hOrders' = hOrders \cup {arg[p]}
  /\ hDupOrder' = (hDupOrder \/ arg[p] \in hOrders)
  /\ UNCHANGED <<hGone, hLeaseAdds, hLeaseRet, hLeaseRems, hHeld>>

HistRemoveOrder(p) ==
  /\ hOrders' = hOrders \ {arg[p]}
  /\ hGone' = IF arg[p] \in hOrders THEN hGone \cup {arg[p]} ELSE hGone
  /\ UNCHANGED <<hDupOrder, hLeaseAdds, hLeaseRet, hLeaseRems, hHeld>>

QuietCli == UNCHANGED cliVars

\* Callers that run AddOrder and RemoveOrder only.
NextOrders ==
  \E p \in Procs :
    \/ \E id \in Ids : CallAddOrder(p, id, MaxOrders) /\ Quiet
    \/ \E id \in Ids : CallRemoveOrder(p, id) /\ Quiet
    \/ Lock(p) /\ Quiet
    \/ LockWait(p) /\ Quiet
    \/ Load(p) /\ Quiet
    \/ AddOrder(p) /\ HistAddOrder(p) /\ QuietCli
    \/ RemoveOrder(p) /\ HistRemoveOrder(p) /\ QuietCli

SpecOrders == Init /\ [][NextOrders]_vars

\* The lease calls the stress test makes: every AddLease with an id of its
\* own, every RemoveLease with an id whose AddLease has returned.
HistCallAddLease(id) ==
  /\ id \notin hLeaseAdds
  /\ hLeaseAdds' = hLeaseAdds \cup {id}
  /\ UNCHANGED <<hOrders, hDupOrder, hGone, hLeaseRet, hLeaseRems, hHeld>>

HistCallRemoveLease(id) ==
  /\ id \in hLeaseRet
  /\ hLeaseRems[id] < MaxRemoves
  /\ hLeaseRems' = [hLeaseRems EXCEPT ![id] = @ + 1]
  /\ UNCHANGED <<hOrders, hDupOrder, hGone, hLeaseAdds, hLeaseRet, hHeld>>

HistAddLease(p) ==
  /\ hLeaseRet' = hLeaseRet \cup {arg[p]}
  /\ UNCHANGED <<hOrders, hDupOrder, hGone, hLeaseAdds, hLeaseRems, hHeld>>

\* Callers that run AddLease and RemoveLease only.
NextLeases ==
  \E p \in Procs :
    \/ \E id \in Ids :
         CallAddLease(p, id, MaxLeases) /\ HistCallAddLease(id) /\ QuietCli
    \/ \E id \in Ids :
         CallRemoveLease(p, id) /\ HistCallRemoveLease(id) /\ QuietCli
    \/ Lock(p) /\ Quiet
    \/ LockWait(p) /\ Quiet
    \/ Load(p) /\ Quiet
    \/ AddLease(p) /\ HistAddLease(p) /\ QuietCli
    \/ RemoveLease(p) /\ Quiet

SpecLeases == Init /\ [][NextLeases]_vars

\* ExpectedOrders() or ExpectedLeases() returns: the method that is inside
\* the exclusive lock at that instant is recorded, "none" when the lock is
\* not held.
HistExpected ==
  /\ hHeld' = LET W == {q \in Procs : pc[q] \in {"cs", "store"}}
              IN IF W = {} THEN "none" ELSE op[CHOOSE q \in W : TRUE]
  /\ UNCHANGED <<hOrders, hDupOrder, hGone, hLeaseAdds, hLeaseRet, hLeaseRems>>

\* Callers that run the mutators, and callers of ExpectedOrders and
\* ExpectedLeases beside them.
NextExpected ==
  \E p \in Procs :
    \/ \E id \in Ids : CallAddOrder(p, id, MaxLen) /\ Quiet
    \/ \E id \in Ids : CallRemoveOrder(p, id) /\ Quiet
    \/ \E id \in Ids : CallAddLease(p, id, MaxLen) /\ Quiet
    \/ \E id \in Ids : CallRemoveLease(p, id) /\ Quiet
    \/ Lock(p) /\ Quiet
    \/ LockWait(p) /\ Quiet
    \/ Load(p) /\ Quiet
    \/ AddOrder(p) /\ Quiet
    \/ RemoveOrder(p) /\ Quiet
    \/ AddLease(p) /\ Quiet
    \/ RemoveLease(p) /\ Quiet
    \/ ExpectedOrders(p) /\ HistExpected /\ QuietCli
    \/ ExpectedLeases(p) /\ HistExpected /\ QuietCli

SpecExpected == Init /\ [][NextExpected]_vars

\* One caller that runs the four mutators one after the other, adding ids
\* whether they are tracked or not.
NextDup ==
  LET p == 1
  IN \/ \E id \in 1..MaxDupId : CallAddOrder(p, id, MaxDup) /\ Quiet
     \/ \E id \in 1..MaxDupId : CallRemoveOrder(p, id) /\ Quiet
     \/ \E id \in 1..MaxDupId : CallAddLease(p, id, MaxDup) /\ Quiet
     \/ \E id \in 1..MaxDupId : CallRemoveLease(p, id) /\ Quiet
     \/ Lock(p) /\ Quiet
     \/ LockWait(p) /\ Quiet
     \/ Load(p) /\ Quiet
     \/ AddOrder(p) /\ Quiet
     \/ RemoveOrder(p) /\ Quiet
     \/ AddLease(p) /\ Quiet
     \/ RemoveLease(p) /\ Quiet

SpecDup == Init /\ [][NextDup]_vars

\* One caller that adds and removes leases, takes snapshots with Leases()
\* and, between its calls, writes and appends to the snapshot it holds.
NextAlias ==
  LET p == 1
  IN \/ \E id \in Ids : CallAddLease(p, id, MaxLeases) /\ Quiet
     \/ \E id \in Ids : CallRemoveLease(p, id) /\ Quiet
     \/ CallLeases(p) /\ Quiet
     \/ Lock(p) /\ Quiet
     \/ LockWait(p) /\ Quiet
     \/ RLock(p) /\ Quiet
     \/ Load(p) /\ Quiet
     \/ AddLease(p) /\ Quiet
     \/ RemoveLease(p) /\ Quiet
     \/ Leases(p) /\ Quiet
     \/ \E i \in 1..MaxLeases, v \in Ids : CallerWrite(p, i, v) /\ Quiet
     \/ \E v \in Ids : CallerAppend(p, v, MaxLeases) /\ Quiet

SpecAlias == Init /\ [][NextAlias]_vars

\* The step of caller p inside the method it has called, whichever it is.
Proceed(p) ==
  \/ LockWait(p) /\ Quiet
  \/ Load(p) /\ Quiet
  \/ AddOrder(p) /\ Quiet
  \/ RemoveOrder(p) /\ Quiet
  \/ AddLease(p) /\ Quiet
  \/ RemoveLease(p) /\ Quiet
  \/ Leases(p) /\ Quiet

\* Concurrent callers of the five locking methods, for a deployment of
\* MaxLive groups with the ids 1..MaxLive.
NextLive ==
  \E p \in Procs :
    \/ \E id \in 1..MaxLive : CallAddOrder(p, id, MaxLive) /\ Quiet
    \/ \E id \in 1..MaxLive : CallRemoveOrder(p, id) /\ Quiet
    \/ \E id \in 1..MaxLive : CallAddLease(p, id, MaxLive) /\ Quiet
    \/ \E id \in 1..MaxLive : CallRemoveLease(p, id) /\ Quiet
    \/ CallLeases(p) /\ Quiet
    \/ Lock(p) /\ Quiet
    \/ RLock(p) /\ Quiet
    \/ Proceed(p)

\* The scheduling the Go runtime gives the callers: a goroutine that can
\* run does run (weak fairness of its steps), and one that waits for the
\* lock is not passed over for ever: sync.Mutex hands the lock to a waiter
\* that has waited long (starvation mode), and RWMutex.Unlock releases the
\* readers that wait before the next writer can lock (strong fairness of
\* Lock and RLock). Nothing obliges a caller to call.
Fairness ==
  \A p \in Procs :
    /\ WF_vars(Proceed(p))
    /\ SF_vars(Lock(p) /\ Quiet)
    /\ SF_vars(RLock(p) /\ Quiet)

InitLive == Init /\ Len(Groups) = MaxLive

SpecLive == InitLive /\ [][NextLive]_vars /\ Fairness

\* Callers that run AddLease, RemoveLease and Leases only.
NextSnap ==
  \E p \in Procs :
    \/ \E id \in Ids : CallAddLease(p, id, MaxLeases) /\ Quiet
    \/ \E id \in Ids : CallRemoveLease(p, id) /\ Quiet
    \/ CallLeases(p) /\ Quiet
    \/ Lock(p) /\ Quiet
    \/ LockWait(p) /\ Quiet
    \/ RLock(p) /\ Quiet
    \/ Load(p) /\ Quiet
    \/ AddLease(p) /\ Quiet
    \/ RemoveLease(p) /\ Quiet
    \/ Leases(p) /\ Quiet

SpecSnap == Init /\ [][NextSnap]_vars

\* ------------------------------------------------------------- claims
Range(q) == {q[i] : i \in 1..Len(q)}
NoDup(q) == \A i, j \in 1..Len(q) : q[i] = q[j] => i = j
Orders == View(heap, OrderID)
LeaseList == View(heap, LeaseID)

\* C1: as long as no order id has been added while it was present, the order
\* collection holds exactly the ids added and not subsequently removed, each
\* of them once.
C1_OrdersExact ==
  ~hDupOrder => (NoDup(Orders) /\ Range(Orders) = hOrders)

\* An id was removed and added again behind another one.
C1_Witness ==
  ~hDupOrder /\ 1 \in hGone /\ Orders = <<2, 1>>

RECURSIVE SumTo(_, _)
SumTo(f, n) == IF n = 0 THEN 0 ELSE f[n] + SumTo(f, n - 1)
AllReturned == \A p \in Procs : pc[p] = "idle"
LeaseAddCalls == Cardinality(hLeaseAdds)
LeaseRemoveCalls == SumTo(hLeaseRems, MaxId)
RemovedLeases == {id \in Ids : hLeaseRems[id] > 0}

\* C2 as stated: once every call has returned, the number of leases is the
\* number of AddLease calls minus the number of RemoveLease calls.
C2_NetCardinality ==
  AllReturned => LeaseID.len = LeaseAddCalls - LeaseRemoveCalls

\* C2, amended: once every call has returned, and when no id was passed to
\* RemoveLease twice, the lease collection holds exactly the added ids that
\* were not removed, each once, so that its length is adds minus removes.
C2_NoLostUpdate ==
  (AllReturned /\ \A id \in Ids : hLeaseRems[id] <= 1) =>
    /\ NoDup(LeaseList)
    /\ Range(LeaseList) = hLeaseAdds \ RemovedLeases
    /\ LeaseID.len = LeaseAddCalls - LeaseRemoveCalls

\* Two leases were added, one of them was removed, all calls have returned.
C2_Witness ==
  /\ AllReturned
  /\ \A id \in Ids : hLeaseRems[id] <= 1
  /\ LeaseAddCalls = 2
  /\ LeaseRemoveCalls = 1
  /\ LeaseID.len = 1

\* A step in which a call of Leases() returns.
LeasesReturns == \E p \in Procs : pc[p] = "rcs" /\ pc'[p] = "idle"

\* C3: whatever AddLease and RemoveLease calls follow, the slice Leases()
\* returned keeps its length and its elements.
C3_SnapshotStable ==
  [][~LeasesReturns => View(heap', snap') = View(heap, snap)]_vars

\* The snapshot shares its array with the tracker, which has appended to it
\* since.
C3_Witness ==
  snap.len > 0 /\ snap.ptr = LeaseID.ptr /\ snap.len < LeaseID.len

InWriter(p) == pc[p] \in {"cs", "store"}
InReader(p) == pc[p] = "rcs"

\* C4: at most one caller is inside a mutator, and none is inside Leases()
\* while one is.
C4_MutualExclusion ==
  \A p, q \in Procs :
    (p # q /\ InWriter(p)) => (~InWriter(q) /\ ~InReader(q))

\* A mutator is inside its critical section while Leases() and another
\* mutator wait for the lock.
C4_Witness ==
  \E p, q \in Procs :
    /\ pc[p] = "store"
    /\ pc[q] \in {"lock", "rlock"}

\* A step in which caller p returns from method m.
Returns(p, m) == pc[p] = "store" /\ op[p] = m /\ pc'[p] = "idle"

\* C5: RemoveOrder and RemoveLease called with an id that is not in the
\* collection leave its elements, their number and their order as they were.
C5_RemoveAbsentNoOp ==
  [][\A p \in Procs :
       /\ (Returns(p, "RemoveOrder") /\ arg[p] \notin Range(Orders))
            => View(heap', OrderID') = Orders
       /\ (Returns(p, "RemoveLease") /\ arg[p] \notin Range(LeaseList))
            => View(heap', LeaseID') = LeaseList]_vars

\* RemoveLease is about to store its result for an id the non-empty
\* collection does not hold, while the order collection is empty.
C5_Witness ==
  \E p \in Procs :
    /\ pc[p] = "store" /\ op[p] = "RemoveLease"
    /\ LeaseList # <<>>
    /\ arg[p] \notin Range(LeaseList)
    /\ Orders = <<>>

\* C6: ExpectedOrders() returns true exactly when there are as many tracked
\* orders as groups, ExpectedLeases() exactly when there are as many tracked
\* leases as groups.
C6_ExpectedIff ==
  [][ret' # ret =>
       /\ ret'.op = "ExpectedOrders" => (ret'.b <=> Len(Orders) = Len(Groups))
       /\ ret'.op = "ExpectedLeases" => (ret'.b <=> Len(LeaseList) = Len(Groups))]_vars

\* With two groups and two orders ExpectedOrders() has returned true.
C6_Witness ==
  ret.op = "ExpectedOrders" /\ ret.b /\ Len(Groups) = 2 /\ Len(Orders) = 2

\* The message MsgCreate() is to build from the tracker.
CreateMsgOf(id, groups, store, version) ==
  /\ ret.msg.ID = id
  /\ ret.msg.Version = version
  /\ Len(ret.msg.Groups) = Len(groups)
  /\ \A i \in 1..Len(groups) : ret.msg.Groups[i] = store[groups[i]]

\* C7: MsgCreate() changes no field of the tracker, and the message it
\* returned carries the stored id and version and the stored groups in their
\* order, so that every call returns the same message.
C7_MsgCreatePure ==
  /\ [](ret.op = "MsgCreate" => CreateMsgOf(DeploymentID, Groups, groupStore, Version))
  /\ [][(ret' # ret /\ ret'.op = "MsgCreate") => UNCHANGED ddVars]_vars

\* MsgCreate() has returned the message of a two-group deployment that
\* tracks orders and leases.
C7_Witness ==
  /\ ret.op = "MsgCreate"
  /\ Len(ret.msg.Groups) = 2
  /\ Len(Orders) > 0
  /\ Len(LeaseList) > 0

\* The first message of the batch that fails ValidateBasic.
HasInvalid == \E i \in 1..Len(send.datagrams) : ~send.datagrams[i]
FirstInvalid ==
  CHOOSE i \in 1..Len(send.datagrams) :
    ~send.datagrams[i] /\ \A j \in 1..(i - 1) : send.datagrams[j]

\* C8: when a message of the batch fails ValidateBasic, SendMsgs makes no
\* account lookup, gas estimate, signature or broadcast, and returns the
\* error of that message.
C8_ValidateBeforeNetwork ==
  HasInvalid =>
    /\ \A k \in 1..Len(send.log) : send.log[k] = "ValidateBasic"
    /\ send.pc = "returned" =>
         /\ send.err = [step |-> "ValidateBasic", at |-> FirstInvalid]
         /\ send.res = ""

\* SendMsgs has returned the error of the last message of a batch of two.
C8_Witness ==
  /\ send.pc = "returned"
  /\ send.datagrams = <<TRUE, FALSE>>
  /\ send.err = [step |-> "ValidateBasic", at |-> 2]

\* The calls SendMsgs makes after validation, in their order.
Pipeline == <<"GetAccount", "EnrichWithGas", "BuildAndSign", "BroadcastTxCommit">>
Validations == Cardinality({k \in 1..Len(send.log) : send.log[k] = "ValidateBasic"})
PipelineDone == Len(send.log) - Validations

\* C9: the calls of one SendMsgs happen in the order validate, account
\* lookup, gas estimate, signature, broadcast; the call that fails is the last
\* one made; the broadcast is made at most once; SendMsgs has then returned.
C9_OrderNoRetry ==
  /\ [](/\ Validations <= Len(send.datagrams)
        /\ PipelineDone <= Len(Pipeline)
        /\ \A k \in 1..Len(send.log) :
             send.log[k] = IF k <= Validations THEN "ValidateBasic"
                           ELSE Pipeline[k - Validations]
        /\ PipelineDone > 0 => Validations = Len(send.datagrams)
        /\ send.err # NoErr =>
             /\ send.pc = "returned"
             /\ send.log[Len(send.log)] = send.err.step
        /\ PipelineDone = Len(Pipeline) => send.pc = "returned")
  /\ [][send.pc = "returned" => send' = send]_vars

\* The broadcast of a batch of two failed: SendMsgs has returned its error
\* after the four calls, the broadcast made once.
C9_Witness ==
  /\ send.pc = "returned"
  /\ send.err.step = "BroadcastTxCommit"
  /\ Len(send.datagrams) = 2
  /\ PipelineDone = 4

\* initConfig has loaded the config file, whose keyfile does not exist.
KeyfileMissing ==
  /\ cfg.pc = "done"
  /\ cfg.config.loaded
  /\ cfg.env.rpcNew
  /\ cfg.env.statKey = "notexist"

ConfigFileMissing ==
  /\ cfg.pc = "done"
  /\ cfg.env.homeFlag
  /\ cfg.env.statCfg = "notexist"

StepOf(methods) ==
  \E p \in Procs :
    /\ pc'[p] # pc[p]
    /\ (op[p] \in methods \/ op'[p] \in methods)

\* The elements and the capacity of a collection, whatever its address.
Contents(h, s) == [elems |-> View(h, s), cap |-> s.cap]

\* C12: no step of any method changes Groups (nor the group specs they
\* point to), DeploymentID or Version; the steps of AddOrder and RemoveOrder
\* leave the lease collection as it was, the steps of AddLease, RemoveLease
\* and Leases leave the order collection as it was, and ExpectedOrders,
\* ExpectedLeases and MsgCreate leave both.
C12_Frame ==
  [][/\ Groups' = Groups
     /\ groupStore' = groupStore
     /\ DeploymentID' = DeploymentID
     /\ Version' = Version
     /\ StepOf({"AddOrder", "RemoveOrder"})
          => Contents(heap', LeaseID') = Contents(heap, LeaseID)
     /\ StepOf({"AddLease", "RemoveLease", "Leases"})
          => Contents(heap', OrderID') = Contents(heap, OrderID)
     /\ ret' # ret
          => /\ Contents(heap', LeaseID') = Contents(heap, LeaseID)
             /\ Contents(heap', OrderID') = Contents(heap, OrderID)]_vars

\* Orders and leases have been added, a snapshot taken and the message
\* built, and the deployment still has the groups, id and version it was
\* constructed with.
C12_Witness ==
  /\ Len(Orders) = 2
  /\ Len(LeaseList) = 1
  /\ snap.len = 1
  /\ ret.op = "MsgCreate"
  /\ Len(Groups) = MaxGroups
  /\ DeploymentID = [Owner |-> "akash1owner", DSeq |-> 7]
  /\ Version = "sha256:manifest"


\* The prefixes of a sequence, the empty and the whole one included.
Prefixes(q) == {SubSeq(q, 1, n) : n \in 0..Len(q)}

\* The config file as writeConfig is to leave it.
NewFile == [exists |-> TRUE, data |-> Marshal(wc.cfg)]

\* C13 as stated: from the call of writeConfig on, the config file is the
\* one there was before the call or the complete new one.
C13_AtomicRewrite ==
  wc.pc # "idle" => fs.cfgFile \in {wc.old, NewFile}

\* C13, amended: writeConfig creates the directory before anything else and
\* overwrites the config file in place. Up to the open the file is the old
\* one; from the open on it is a prefix of the new contents, empty at first;
\* when writeConfig returns success the file is complete and the global
\* config reset; on an error the global config is left as it was.
C13_OverwriteInPlace ==
  /\ wc.pc \in {"marshal", "open", "write", "close", "reset"} => fs.dir
  /\ wc.pc \in {"mkdir", "marshal", "open"} => fs.cfgFile = wc.old
  /\ (wc.pc # "idle" /\ fs.cfgFile # wc.old) =>
       /\ fs.dir
       /\ fs.cfgFile.exists
       /\ fs.cfgFile.data \in Prefixes(Marshal(wc.cfg))
  /\ (wc.pc = "returned" /\ wc.err = "nil") =>
       /\ fs.cfgFile = NewFile
       /\ wc.config = wc.cfg
  /\ (wc.pc = "returned" /\ wc.err # "nil") => wc.config = OldConfig

\* A write failed part-way in a directory writeConfig did not have to
\* create: the old config file is gone and the new one is incomplete.
C13_Witness ==
  /\ wc.pc = "returned"
  /\ wc.err = "err"
  /\ wc.old = [exists |-> TRUE, data |-> Marshal(OldConfig)]
  /\ Len(fs.cfgFile.data) = 2


\* C14: ExpectedOrders() and ExpectedLeases() can be called and return in
\* every state, whoever holds or waits for the lock; when one returns, the
\* lock and every caller inside a mutator are as they were, and the result
\* is the comparison of the sizes as they are at that instant.
C14_NoLock ==
  /\ [](\A p \in Procs :
          pc[p] = "idle" => (ENABLED ExpectedOrders(p) /\ ENABLED ExpectedLeases(p)))
  /\ [][ret' # ret =>
          /\ rw' = rw
          /\ pc' = pc
          /\ ret'.op = "ExpectedOrders" => (ret'.b <=> OrderID.len = Len(Groups))
          /\ ret'.op = "ExpectedLeases" => (ret'.b <=> LeaseID.len = Len(Groups))]_vars

\* ExpectedOrders() returned true while AddOrder held the exclusive lock,
\* and the order AddOrder has added since makes that answer stale.
C14_Witness ==
  /\ ret.op = "ExpectedOrders"
  /\ ret.b
  /\ hHeld = "AddOrder"
  /\ AllReturned
  /\ Len(Orders) = Len(Groups) + 1


\* The calls NewDeploymentData makes before the height query, in order.
NewCalls ==
  <<"ReadFile", "Read", "DeploymentGroups", "Manifest", "ManifestVersion",
    "DeploymentIDFromFlags">>

HeightQueries == Cardinality({k \in 1..Len(nd.log) : nd.log[k] = "BlockHeight"})

\* C15: the block height is queried exactly when the flags give DSeq 0, and
\* then once, after the six other steps; a returned tracker carries the
\* height in that case and the flags' DSeq otherwise, the groups and the
\* version read from the file, and two empty collections; when a step fails
\* it is the last one made, its error is returned and no tracker is.
C15_Construction ==
  /\ HeightQueries = (IF nd.flagDSeq = 0 /\ Len(nd.log) > Len(NewCalls) THEN 1 ELSE 0)
  /\ \A k \in 1..Len(nd.log) :
       nd.log[k] = IF k <= Len(NewCalls) THEN NewCalls[k] ELSE "BlockHeight"
  /\ nd.err \notin {"none", "nil"} =>
       /\ nd.pc = "returned"
       /\ nd.dd = NilTracker
       /\ nd.log[Len(nd.log)] = nd.err
  /\ nd.pc = "returned" => nd.err # "none"
  /\ nd.pc # "returned" => nd.dd = NilTracker
  /\ (nd.pc = "returned" /\ nd.err = "nil") =>
       /\ ~nd.dd.nil
       /\ nd.dd.DeploymentID.Owner = nd.depAddr
       /\ nd.flagDSeq # 0 => nd.dd.DeploymentID.DSeq = nd.flagDSeq
       /\ nd.flagDSeq = 0 => nd.dd.DeploymentID.DSeq = nd.height
       /\ nd.dd.Groups = nd.groups
       /\ nd.dd.Version = "sha256:manifest"
       /\ nd.dd.OrderID.len = 0
       /\ nd.dd.LeaseID.len = 0
       /\ Len(nd.log) = Len(NewCalls) + (IF nd.flagDSeq = 0 THEN 1 ELSE 0)

\* Without a --dseq flag a tracker was returned whose sequence is the
\* chain's height.
C15_Witness ==
  /\ nd.pc = "returned"
  /\ nd.err = "nil"
  /\ nd.flagDSeq = 0
  /\ nd.height = MaxHeight
  /\ nd.dd.DeploymentID.DSeq = MaxHeight
  /\ Len(nd.dd.Groups) = MaxGroups


\* validateConfig has succeeded for a config whose keyfile exists and was
\* imported.
KeyImported ==
  /\ cfg.pc = "done"
  /\ cfg.returned = "nil"
  /\ cfg.config.loaded
  /\ cfg.config.keybase = "default"

\* C16: after validateConfig has succeeded for a config whose keyfile exists
\* and imports, the address stored on the Config is the address of the
\* default key.
C16_AddressStored ==
  KeyImported => cfg.config.address = "akash1default"


\* C17: CreateKey leaves a keyfile that exists as it is and returns an
\* error, and does so too when the stat fails otherwise than with not-exist;
\* the keyfile is touched only when the stat said not-exist and the key was
\* generated and exported; when CreateKey returns success the keyfile holds
\* the exported key.
C17_NoOverwrite ==
  /\ (ck.pc # "idle" /\ ck.old.exists) => fs.keyFile = ck.old
  /\ ck.stat \in {"ok", "error"} =>
       /\ ck.pc = "returned"
       /\ ck.err = "exists"
       /\ fs.keyFile = ck.old
  /\ (ck.pc # "idle" /\ fs.keyFile # ck.old) =>
       /\ ~ck.old.exists
       /\ ck.stat = "notexist"
       /\ Len(ck.made) = 3
       /\ ck.armor = Armor
       /\ fs.keyFile.data \in Prefixes(Armor)
  /\ (ck.pc = "returned" /\ ck.err = "nil") =>
       fs.keyFile = [exists |-> TRUE, data |-> Armor]
  /\ (ck.pc = "returned" /\ ck.err \notin {"nil", "WriteFile"}) =>
       fs.keyFile = ck.old

\* CreateKey has written a keyfile, and called again has refused to run
\* over it: the keyfile is as the first call left it.
C17_Witness ==
  /\ ck.pc = "returned"
  /\ ck.calls = 2
  /\ ck.old = [exists |-> TRUE, data |-> Armor]
  /\ ck.stat = "ok"
  /\ ck.err = "exists"
  /\ fs.keyFile = ck.old


\* A sequence without the elements equal to id, the others in their order.
Without(q, id) ==
  LET Other(x) == x # id
  IN SelectSeq(q, Other)

\* C18: when RemoveOrder(id) returns, the order collection is the one there
\* was without any of the occurrences of id, the other elements in the order
\* they had; likewise RemoveLease(id) and the lease collection.
C18_RemoveEvery ==
  [][\A p \in Procs :
       /\ Returns(p, "RemoveOrder") =>
            /\ View(heap', OrderID') = Without(Orders, arg[p])
            /\ arg[p] \notin Range(View(heap', OrderID'))
       /\ Returns(p, "RemoveLease") =>
            /\ View(heap', LeaseID') = Without(LeaseList, arg[p])
            /\ arg[p] \notin Range(View(heap', LeaseID'))]_vars

\* RemoveOrder(1) is about to store its result for a collection that holds
\* id 1 twice, between and behind two other ids.
C18_Witness ==
  \E p \in Procs :
    /\ pc[p] = "store" /\ op[p] = "RemoveOrder" /\ arg[p] = 1
    /\ Orders = <<2, 1, 3, 1>>
    /\ LeaseList = <<3, 3>>


\* A step in which the holder of a snapshot writes or appends to it: no
\* method of the tracker is running in it.
CallerStep == pc' = pc /\ ret' = ret /\ <<heap, snap>>' # <<heap, snap>>

\* C19: a caller that writes an element of the slice Leases() returned, or
\* appends to it, leaves the lease collection of the tracker as it was.
C19_NoAlias ==
  [][CallerStep => View(heap', LeaseID') = LeaseList]_vars


\* The lock is held exactly by the callers that are between its acquisition
\* and its release: the writer that has passed Lock's first half, the
\* readers inside Leases().
LockMatchesCallers ==
  /\ rw.readers = {p \in Procs : pc[p] = "rcs"}
  /\ \A p \in Procs : (pc[p] \in {"rwait", "cs", "store"}) <=> rw.w = p

\* C20: every call that has started returns; the lock is held by the
\* callers inside it and by nobody else, so that when every call has
\* returned the lock is free.
C20_EveryCallReturns ==
  /\ \A p \in Procs : (pc[p] # "idle") ~> (pc[p] = "idle")
  /\ [](LockMatchesCallers /\ (AllReturned => rw = [w |-> 0, readers |-> {}]))

\* A writer has announced itself and waits for the reader inside Leases()
\* to leave.
C20_Witness ==
  \E p, q \in Procs :
    /\ pc[p] = "rwait" /\ rw.w = p
    /\ pc[q] = "rcs" /\ q \in rw.readers


====
